---- MODULE Spec2Model ----
(***************************************************************************)
(* Scoring functions of 250228ai_care_plan.py: calculate_stages,           *)
(* calculate_motivation, generate_goals and define_rules_and_goals.        *)
(*                                                                         *)
(* Encoding of the Python values.                                          *)
(*   - adl_data (a dict) is a function from the set of present items to    *)
(*     their status.  Items are iterated in the order the ADL form builds  *)
(*     the dict (Meals, Toileting, Bathing, Mobility, ...).                *)
(*   - item names and statuses are written in English:                     *)
(*       Meals=shokuji, Toileting=haisetsu, Bathing=nyuuyoku,              *)
(*       Mobility=idou, Dressing=kigae, Grooming=seiyou,                   *)
(*       Communication, Cognition=ninchi kinou, Sleep=suimin,              *)
(*       Medication=fukuyaku kanri, Money=kinsen kanri, Shopping=kaimono   *)
(*       FullAssistance=you zen kaijo, PartialAssistance=ichibu kaijo,     *)
(*       Supervision=mimamori, Independent=jiritsu.                        *)
(*   - the priority and motivation weights (1.5, 1.3, ...) are kept in     *)
(*     tenths; the motivation scores (0, 1, 1.5, 2) in halves.             *)
(*   - a motivation value is kept in units of 1/80 (MotivationUnit), the  *)
(*     common denominator of score * weight / 4.0, so that 2.0 is 160,     *)
(*     1.4 is 112 and one decimal place is a multiple of 8.                *)
(*   - the float quotient of calculate_stages is computed exactly; for     *)
(*     dicts in form order the binary64 evaluation of the source gives     *)
(*     the same truncated stage on every assessment.                       *)
(*   - the goal texts are written in English.                              *)
(***************************************************************************)
EXTENDS Integers, FiniteSets, Sequences, TLC

VARIABLES adl_data, op, ret, exc, heap, log, session_state, script

vars == <<adl_data, op, ret, exc, heap, log, session_state, script>>

(***************************************************************************)
(* Bounds of the input space.                                              *)
(***************************************************************************)
\* number of items in which an input assessment may differ from a base
\* assessment (the empty one, or the whole catalogue at one status)
MaxVaried == 2

(***************************************************************************)
(* Data: the catalogue of the ADL form and the statuses of its selectbox.  *)
(***************************************************************************)
adl_categories ==
    {"Meals", "Toileting", "Bathing", "Mobility", "Dressing", "Grooming",
     "Communication", "Cognition", "Sleep",
     "Medication", "Money", "Shopping"}

\* an item name that is not in the catalogue
UnknownItem == "Hobby"

ItemNames == adl_categories \cup {UnknownItem}

Statuses == {"FullAssistance", "PartialAssistance", "Supervision", "Independent"}

\* a status string that none of the tables knows
UnknownStatus == "Unrated"

StatusValues == Statuses \cup {UnknownStatus}

\* position of a recognised status in the order of the selectbox
StatusRank(status) ==
    CASE status = "FullAssistance"    -> 1
      [] status = "PartialAssistance" -> 2
      [] status = "Supervision"       -> 3
      [] status = "Independent"       -> 4

(***************************************************************************)
(* Arithmetic helpers.                                                     *)
(***************************************************************************)
RECURSIVE SumOver(_, _)
SumOver(S, f) ==
    IF S = {} THEN 0
    ELSE LET x == CHOOSE y \in S : TRUE
         IN  f[x] + SumOver(S \ {x}, f)

\* Python int() of the quotient num / den (den > 0): truncation towards zero
IntTrunc(num, den) ==
    IF num >= 0 THEN num \div den ELSE -((-num) \div den)

Min2(a, b) == IF a < b THEN a ELSE b
Max2(a, b) == IF a > b THEN a ELSE b

(***************************************************************************)
(* calculate_stages                                                        *)
(***************************************************************************)
\* variant: the weights of Supervision and Independent exchanged
stage_weights_swapped(status) ==
    CASE status = "FullAssistance"    -> 1
      [] status = "PartialAssistance" -> 2
      [] status = "Supervision"       -> 4
      [] status = "Independent"       -> 3
      [] OTHER                        -> 1

\* variant: an unrecognised status weighs 0, as in status_scores
stage_weights_default_zero(status) ==
    CASE status = "FullAssistance"    -> 1
      [] status = "PartialAssistance" -> 2
      [] status = "Supervision"       -> 3
      [] status = "Independent"       -> 4
      [] OTHER                        -> 0

\* stage_weights.get(status, 1)
stage_weights(status) ==
    CASE status = "FullAssistance"    -> 1
      [] status = "PartialAssistance" -> 2
      [] status = "Supervision"       -> 3
      [] status = "Independent"       -> 4
      [] OTHER                        -> 1

\* the keys of priority_items
priority_keys == {"Mobility", "Toileting", "Meals", "Bathing"}

\* variant: an item outside the catalogue weighs nothing
priority_items_catalogue_only(item) ==
    CASE item = "Mobility"  -> 15
      [] item = "Toileting" -> 13
      [] item = "Meals"     -> 12
      [] item = "Bathing"   -> 11
      [] OTHER              -> IF item \in adl_categories THEN 10 ELSE 0

\* priority_items.get(item, 1.0), in tenths
priority_items(item) ==
    CASE item = "Mobility"  -> 15
      [] item = "Toileting" -> 13
      [] item = "Meals"     -> 12
      [] item = "Bathing"   -> 11
      [] OTHER              -> 10

\* stage_values: the stage weight of every item of adl_data
stage_values(adl) == [item \in DOMAIN adl |-> stage_weights(adl[item])]

\* variant: every item counted 1.0 on top of the priority weights
total_weight_count_all(adl) ==
    SumOver(priority_keys, [k \in priority_keys |-> priority_items(k)])
      + 10 * Cardinality(DOMAIN adl)

\* variant: the weights of the present items summed
total_weight_present_items(adl) ==
    SumOver(DOMAIN adl, [item \in DOMAIN adl |-> priority_items(item)])

\* variant: the non-priority items left out of the total weight
total_weight_priority_only(adl) ==
    SumOver(priority_keys, [k \in priority_keys |-> priority_items(k)])

\* total_weight = sum(priority_items.values()) + (len(adl_data) - len(priority_items)),
\* in tenths
total_weight(adl) ==
    SumOver(priority_keys, [k \in priority_keys |-> priority_items(k)])
      + 10 * (Cardinality(DOMAIN adl) - Cardinality(priority_keys))

\* weighted_sum += stage * weight, in tenths
weighted_sum(adl) ==
    SumOver(DOMAIN adl,
            [item \in DOMAIN adl |-> stage_values(adl)[item] * priority_items(item)])

\* variant: the quotient rounded to the nearest integer
final_stage_rounded(adl) ==
    IntTrunc(2 * 5 * weighted_sum(adl) + 4 * total_weight(adl), 2 * 4 * total_weight(adl))

\* final_stage = int((average_stage / 4) * 5), average_stage = weighted_sum / total_weight
final_stage(adl) == IntTrunc(5 * weighted_sum(adl), 4 * total_weight(adl))

\* variant: only the upper limit applied
clamp_stage_upper_only(s) == Min2(5, s)

\* variant: the final stage returned without clamping
clamp_stage_missing(s) == s

\* return max(1, min(5, final_stage))
clamp_stage(s) == Max2(1, Min2(5, s))

\* the outcome of a call: the exception raised ("none" if it returns) and
\* the returned value
calculate_stages(adl) ==
    IF total_weight(adl) = 0
    THEN [exc |-> "ZeroDivisionError", ret |-> 0]
    ELSE [exc |-> "none", ret |-> clamp_stage(final_stage(adl))]

(***************************************************************************)
(* calculate_motivation                                                    *)
(***************************************************************************)
motivation_keys == {"Communication", "Cognition", "Sleep"}

\* motivation_indicators[item], in tenths
motivation_indicators(item) ==
    CASE item = "Communication" -> 15
      [] item = "Cognition"     -> 13
      [] item = "Sleep"         -> 12

\* variant: the 1..4 scale of stage_weights used for the scores
status_scores_stage_scale(status) ==
    CASE status = "FullAssistance"    -> 2
      [] status = "PartialAssistance" -> 4
      [] status = "Supervision"       -> 6
      [] status = "Independent"       -> 8
      [] OTHER                        -> 0

\* status_scores.get(status, 0), in halves
status_scores(status) ==
    CASE status = "FullAssistance"    -> 0
      [] status = "PartialAssistance" -> 2
      [] status = "Supervision"       -> 3
      [] status = "Independent"       -> 4
      [] OTHER                        -> 0

\* one motivation value 1.0, in the unit of the model
MotivationUnit == 80

\* variant: only the weights of the motivation items present are summed
motivation_total_weight_present(adl) ==
    LET present == motivation_keys \cap DOMAIN adl
    IN  SumOver(present, [k \in present |-> motivation_indicators(k)])

\* total_weight = sum(motivation_indicators.values()), in tenths
motivation_total_weight(adl) ==
    SumOver(motivation_keys, [k \in motivation_keys |-> motivation_indicators(k)])

\* variant: every present item scored, the other items with weight 1.0
motivation_weighted_sum_all_items(adl) ==
    SumOver(DOMAIN adl,
            [item \in DOMAIN adl |->
                status_scores(adl[item])
                  * (IF item \in motivation_keys THEN motivation_indicators(item) ELSE 10)])

\* weighted_sum over the motivation items that are in adl_data, in twentieths
motivation_weighted_sum(adl) ==
    LET present == motivation_keys \cap DOMAIN adl
    IN  SumOver(present,
                [item \in present |-> status_scores(adl[item]) * motivation_indicators(item)])

\* The weighted sums whose quotient by 4.0 lies, as a binary64 value, above
\* the decimal midpoint it is nearest to, so that round(_, 1) goes up; on
\* the other midpoints (36, 76, 92, 100, 132, 148) the binary64 value lies
\* below and round(_, 1) goes down.
RoundsUp == {52, 60, 84, 108}

\* round(num / den, 1) in tenths, num in twentieths and den in tenths:
\* the nearest tenth of num / (2 * den)
round1(num, den) ==
    LET twice == 10 * num          \* tenths * (2 * den)
        low   == twice \div (2 * den)
        rest  == twice % (2 * den)
    IN  IF rest < den THEN low
        ELSE IF rest > den THEN low + 1
        ELSE IF num \in RoundsUp THEN low + 1 ELSE low

\* variant: the quotient returned without round(_, 1)
calculate_motivation_unrounded(adl) ==
    IF motivation_total_weight(adl) = 0
    THEN [exc |-> "ZeroDivisionError", ret |-> 0]
    ELSE [exc |-> "none",
          ret |-> (MotivationUnit * motivation_weighted_sum(adl))
                    \div (2 * motivation_total_weight(adl))]

\* return round(weighted_sum / total_weight, 1), in units of 1/80
calculate_motivation(adl) ==
    IF motivation_total_weight(adl) = 0
    THEN [exc |-> "ZeroDivisionError", ret |-> 0]
    ELSE [exc |-> "none",
          ret |-> (MotivationUnit \div 10)
                    * round1(motivation_weighted_sum(adl), motivation_total_weight(adl))]

(***************************************************************************)
(* The input assessments.                                                  *)
(***************************************************************************)
Absent == "absent"

\* base assessments: the empty dict and the whole catalogue at one status
Bases ==
    {[item \in {} |-> "FullAssistance"]}
      \cup {[item \in adl_categories |-> s] : s \in Statuses}

\* the subsets of ItemNames of at most n elements
RECURSIVE SubsetsUpTo(_, _)
SubsetsUpTo(S, n) ==
    IF n = 0 THEN {{}}
    ELSE LET smaller == SubsetsUpTo(S, n - 1)
         IN  smaller \cup {T \cup {x} : T \in smaller, x \in S}

\* base with the items of d removed or set to the status d gives them
Override(base, d) ==
    LET dom == {item \in DOMAIN base \cup DOMAIN d :
                    IF item \in DOMAIN d THEN d[item] # Absent ELSE TRUE}
    IN  [item \in dom |-> IF item \in DOMAIN d THEN d[item] ELSE base[item]]

Assessments ==
    {Override(base, d) :
        base \in Bases,
        d \in UNION {[T -> StatusValues \cup {Absent}] : T \in SubsetsUpTo(ItemNames, MaxVaried)}}

(***************************************************************************)
(* generate_goals                                                          *)
(***************************************************************************)
\* stage_goals, the texts in English
stage_goals ==
    [k \in 1..5 |->
        CASE k = 1 -> [short |-> "stabilise basic ADL",
                       long  |-> "improve to partial assistance"]
          [] k = 2 -> [short |-> "reduce the amount of assistance",
                       long  |-> "improve to supervision"]
          [] k = 3 -> [short |-> "identify the situations needing supervision",
                       long  |-> "achieve partial independence"]
          [] k = 4 -> [short |-> "extend the range of independence",
                       long  |-> "maintain full independence"]
          [] k = 5 -> [short |-> "maintain current function",
                       long  |-> "promote social participation"]]

\* motivation_goals, the texts in English
motivation_goals ==
    [k \in 0..2 |->
        CASE k = 0 -> [short |-> "establish basic communication",
                       long  |-> "improve expression of intent"]
          [] k = 1 -> [short |-> "improve everyday communication",
                       long  |-> "active participation in activities"]
          [] k = 2 -> [short |-> "promote social interaction",
                       long  |-> "support self-realisation"]]

\* variant: the stage used as the key without clamping
goal_stage_level_unclamped(stages) == stages

\* stage_level = min(5, max(1, stages))
goal_stage_level(stages) == Min2(5, Max2(1, stages))

\* variant: the motivation rounded to the nearest integer instead of truncated
goal_motivation_level_rounded(motivation) ==
    Min2(2, Max2(0, IntTrunc(2 * motivation + MotivationUnit, 2 * MotivationUnit)))

\* motivation_level = min(2, max(0, int(motivation)))
goal_motivation_level(motivation) ==
    Min2(2, Max2(0, IntTrunc(motivation, MotivationUnit)))

\* the dict a call starts from: goals = {"short_term": [], "long_term": []}
empty_goals == [short_term |-> <<>>, long_term |-> <<>>]

\* variant: one dict shared by all the calls (created by the first one)
new_goals_shared(h) ==
    IF h = <<>> THEN [id |-> 1, value |-> empty_goals]
    ELSE [id |-> 1, value |-> h[1]]

\* the dict literal at the head of generate_goals: every call allocates a
\* new object (id) holding two empty lists; h is the objects allocated so far
new_goals(h) == [id |-> Len(h) + 1, value |-> empty_goals]

\* the body of generate_goals once goals is bound: the two extend calls
generate_goals(stages, motivation, goals) ==
    LET stage_level == goal_stage_level(stages)
        motivation_level == goal_motivation_level(motivation)
    IN  IF stage_level \notin DOMAIN stage_goals
           \/ motivation_level \notin DOMAIN motivation_goals
        THEN [exc |-> "KeyError", ret |-> goals]
        ELSE [exc |-> "none",
              ret |-> [short_term |-> goals.short_term \o
                                        <<stage_goals[stage_level].short,
                                          motivation_goals[motivation_level].short>>,
                       long_term  |-> goals.long_term \o
                                        <<stage_goals[stage_level].long,
                                          motivation_goals[motivation_level].long>>]]

\* the objects allocated so far with object id holding value
store(h, id, value) ==
    IF id \in DOMAIN h THEN [h EXCEPT ![id] = value] ELSE Append(h, value)

\* define_rules_and_goals: the three calls in order, an exception of one of
\* them propagating
define_rules_and_goals(adl, h) ==
    LET stages == calculate_stages(adl)
        motivation == calculate_motivation(adl)
        g == new_goals(h)
        goals == generate_goals(stages.ret, motivation.ret, g.value)
    IN  IF stages.exc # "none" THEN [exc |-> stages.exc, ret |-> 0, heap |-> h]
        ELSE IF motivation.exc # "none" THEN [exc |-> motivation.exc, ret |-> 0, heap |-> h]
        ELSE IF goals.exc # "none"
             THEN [exc |-> goals.exc, ret |-> 0, heap |-> store(h, g.id, goals.ret)]
        ELSE [exc |-> "none",
              ret |-> [stages |-> stages.ret, motivation |-> motivation.ret,
                       goals |-> goals.ret],
              heap |-> store(h, g.id, goals.ret)]

(***************************************************************************)
(* The language-model calls of 250228ai_care_plan.py:                      *)
(* get_response_with_retry and generate_care_plan.                         *)
(*                                                                         *)
(* A Python value that is None or a string is NoneValue or [text |-> s];   *)
(* a dict is a function from its keys.  The outcome of one request to the  *)
(* API is "error" (the client raises), "" (empty content) or a text.       *)
(***************************************************************************)
NoneValue == [none |-> TRUE]

LlmOutcomes == {"error", "", "text"}

\* number of requests for which the behaviour of the API is given
MaxAttempts == 2

\* the outcomes the API gives to the successive requests of one call
ApiBehaviours == [1..MaxAttempts -> LlmOutcomes]

\* "if not value": None and the empty string are false
falsy(value) == value = NoneValue \/ value = [text |-> ""]

\* one completion request: the content, or None when the client raises
\* (the try / except around client.chat.completions.create)
completion(outcome) ==
    IF outcome = "error" THEN NoneValue ELSE [text |-> outcome]

\* get_response_with_retry: a single request, its failure returned as None
get_response_with_retry(api) ==
    [ret |-> completion(api[1]), attempts |-> 1]

\* the three sections generated first, in this order
mandatory_sections == <<"intentions", "certification_opinion", "support_policy">>

\* d with key set to value
dict_set(d, key, value) ==
    [k \in DOMAIN d \cup {key} |-> IF k = key THEN value ELSE d[k]]

\* variant: a failed question ends the loop (break instead of continue)
RECURSIVE answer_questions_break(_, _, _)
answer_questions_break(in, questions, acc) ==
    IF questions = <<>> THEN acc
    ELSE LET question == Head(questions)
             response == get_response_with_retry(<<in.responses[question]>>).ret
             asked == [acc EXCEPT !.requests = Append(acc.requests, question)]
         IN  IF question \in DOMAIN acc.results
             THEN answer_questions_break(in, Tail(questions), acc)
             ELSE IF ~ in.prompts[question] THEN acc
             ELSE IF falsy(response) THEN asked
             ELSE answer_questions_break(in, Tail(questions),
                     [asked EXCEPT !.results = dict_set(acc.results, question, response)])

\* the loop over questions['questions']: a question whose id is already in
\* all_results is skipped; a failed prompt or response skips the question
RECURSIVE answer_questions(_, _, _)
answer_questions(in, questions, acc) ==
    IF questions = <<>> THEN acc
    ELSE LET question == Head(questions)
             response == get_response_with_retry(<<in.responses[question]>>).ret
             asked == [acc EXCEPT !.requests = Append(acc.requests, question)]
         IN  IF question \in DOMAIN acc.results
             THEN answer_questions(in, Tail(questions), acc)
             ELSE IF ~ in.prompts[question]
             THEN answer_questions(in, Tail(questions), acc)
             ELSE IF falsy(response)
             THEN answer_questions(in, Tail(questions), asked)
             ELSE answer_questions(in, Tail(questions),
                     [asked EXCEPT !.results = dict_set(acc.results, question, response)])

\* format_care_plan: the three sections (default "") and then every other key
format_care_plan(results) ==
    LET keys == {"intentions", "certification_opinion", "support_policy"}
                    \cup DOMAIN results
    IN  [k \in keys |-> IF k \in DOMAIN results THEN results[k] ELSE [text |-> ""]]

\* generate_care_plan; in gives what its collaborators do:
\*   loaded     load_questions returned the question settings
\*   questions  the ids of questions['questions'], in order
\*   sections   the outcome of the request of each mandatory section
\*   prompts    whether generate_prompt succeeds for a question
\*   responses  the outcome of the request of a question
\* The result is the returned value and the requests sent to the API.
generate_care_plan(in) ==
    LET intentions == completion(in.sections["intentions"])
        certification_opinion == completion(in.sections["certification_opinion"])
        support_policy == completion(in.sections["support_policy"])
        all_results == [k \in {"intentions", "certification_opinion", "support_policy"} |->
                           IF k = "intentions" THEN intentions
                           ELSE IF k = "certification_opinion" THEN certification_opinion
                           ELSE support_policy]
    IN  IF ~ in.loaded
        THEN [ret |-> NoneValue, requests |-> <<>>]
        ELSE IF falsy(intentions)
        THEN [ret |-> NoneValue, requests |-> SubSeq(mandatory_sections, 1, 1)]
        ELSE IF falsy(certification_opinion)
        THEN [ret |-> NoneValue, requests |-> SubSeq(mandatory_sections, 1, 2)]
        ELSE IF falsy(support_policy)
        THEN [ret |-> NoneValue, requests |-> mandatory_sections]
        ELSE LET done == answer_questions(in, in.questions,
                            [results |-> all_results, requests |-> mandatory_sections])
             IN  [ret |-> format_care_plan(done.results), requests |-> done.requests]

\* the ids of the questions that are not mandatory sections
OptionalQuestions == {"care_goals", "service_plan"}

\* the lists of question ids of the question settings
QuestionLists ==
    {<<>>, <<"care_goals">>, <<"intentions", "care_goals">>,
     <<"care_goals", "service_plan">>}

PlanInputs ==
    [loaded    : BOOLEAN,
     questions : QuestionLists,
     sections  : [{"intentions", "certification_opinion", "support_policy"} -> LlmOutcomes],
     prompts   : [OptionalQuestions -> BOOLEAN],
     responses : [OptionalQuestions -> LlmOutcomes]]

(***************************************************************************)
(* st.session_state.  A key that has not been assigned is not in the       *)
(* domain; user_info and adl_data are dicts, the history is a list of      *)
(* entries, a care plan is None, a text or a dict of texts.                *)
(***************************************************************************)
Scripts == {"250228ai_care_plan", "care_plan2", "care_plan", "care_plan_copy", "app"}

\* the scripts that keep care_plan_history
HistoryScripts == {"250228ai_care_plan", "care_plan2"}

\* st.session_state after the initialisation at the head of script s
initial_session(s) ==
    IF s \in HistoryScripts
    THEN [generated_care_plan |-> NoneValue, care_plan_history |-> <<>>]
    ELSE [generated_care_plan |-> NoneValue]

\* st.session_state after the initialisation at the head of the script
FreshSession == initial_session("250228ai_care_plan")

\* a session of 250228ai_care_plan.py in which a plan was generated
UsedSession ==
    LET user == [name |-> "Sato", care_manager |-> "Kato",
                 care_office |-> "Office", care_level |-> "care level 2"]
        adl == [item \in adl_categories |-> "Independent"]
        plan == [k \in {"intentions", "certification_opinion", "support_policy"} |->
                    [text |-> "text"]]
        needs == [text |-> "stay at home"]
    IN  [generated_care_plan |-> NoneValue,
         care_plan_history |-> <<[user_info |-> user, adl_data |-> adl,
                                  client_needs |-> needs, care_plan |-> plan]>>,
         user_info |-> user, adl_data |-> adl,
         current_care_plan |-> plan, current_client_needs |-> needs]

(***************************************************************************)
(* The calls.                                                              *)
(*   heap           the goals dicts allocated by the calls so far          *)
(*   log            the calls made so far: operation, input, output        *)
(*   session_state  st.session_state: a function from the keys present     *)
(*   script         the variant of the application that is running         *)
(***************************************************************************)
SessionStates == {FreshSession, UsedSession}

Init ==
    /\ adl_data \in Assessments
    /\ op = "none"
    /\ ret = 0
    /\ exc = "none"
    /\ heap = <<>>
    /\ log = <<>>
    /\ session_state = FreshSession
    /\ script = "250228ai_care_plan"

CalculateStages ==
    /\ op = "none"
    /\ op' = "calculate_stages"
    /\ ret' = calculate_stages(adl_data).ret
    /\ exc' = calculate_stages(adl_data).exc
    /\ log' = Append(log, [op |-> "calculate_stages", input |-> adl_data,
                           output |-> calculate_stages(adl_data)])
    /\ UNCHANGED <<adl_data, heap, session_state, script>>

CalculateMotivation ==
    /\ op = "none"
    /\ op' = "calculate_motivation"
    /\ ret' = calculate_motivation(adl_data).ret
    /\ exc' = calculate_motivation(adl_data).exc
    /\ log' = Append(log, [op |-> "calculate_motivation", input |-> adl_data,
                           output |-> calculate_motivation(adl_data)])
    /\ UNCHANGED <<adl_data, heap, session_state, script>>

DefineRulesAndGoals ==
    /\ op = "none"
    /\ op' = "define_rules_and_goals"
    /\ LET out == define_rules_and_goals(adl_data, heap)
       IN  /\ ret' = out.ret
           /\ exc' = out.exc
           /\ heap' = out.heap
           /\ log' = Append(log, [op |-> "define_rules_and_goals", input |-> adl_data,
                                  output |-> [exc |-> out.exc, ret |-> out.ret]])
    /\ UNCHANGED <<adl_data, session_state, script>>

GenerateGoals(stages, motivation) ==
    /\ op = "none"
    /\ op' = "generate_goals"
    /\ LET g == new_goals(heap)
           out == generate_goals(stages, motivation, g.value)
       IN  /\ ret' = out.ret
           /\ exc' = out.exc
           /\ heap' = store(heap, g.id, out.ret)
           /\ log' = Append(log, [op |-> "generate_goals",
                                  input |-> <<stages, motivation>>,
                                  output |-> out])
    /\ UNCHANGED <<adl_data, session_state, script>>

Next ==
    \/ CalculateStages
    \/ CalculateMotivation
    \/ DefineRulesAndGoals

Spec == Init /\ [][Next]_vars

(***************************************************************************)
(* generate_goals called once on arguments of its own.                     *)
(***************************************************************************)
\* how far outside 1..5 the stage argument ranges
StageMargin == 3

\* how far outside [0, 2] the motivation argument ranges, in steps of 0.05
MotivationMargin == 10

GoalStages == (1 - StageMargin)..(5 + StageMargin)

GoalMotivations == {4 * k : k \in (0 - MotivationMargin)..(40 + MotivationMargin)}

InitGoals ==
    /\ adl_data = [item \in {} |-> "FullAssistance"]
    /\ op = "none"
    /\ ret = 0
    /\ exc = "none"
    /\ heap = <<>>
    /\ log = <<>>
    /\ session_state \in SessionStates
    /\ script = "250228ai_care_plan"

NextGoals == \E stages \in GoalStages, motivation \in GoalMotivations :
                 GenerateGoals(stages, motivation)

SpecGoals == InitGoals /\ [][NextGoals]_vars

(***************************************************************************)
(* Sequences of calls by one caller.                                       *)
(***************************************************************************)
\* number of calls in a sequence
MaxCalls == 3

CallAssessments ==
    {[item \in {} |-> "FullAssistance"],
     [item \in adl_categories |-> "Independent"],
     [item \in {"Communication", "Mobility"} |->
         IF item = "Communication" THEN UnknownStatus ELSE "Supervision"]}

CallStages == {0, 3}

CallMotivations == {120, 160}

InitCalls ==
    /\ adl_data \in CallAssessments
    /\ op = "none"
    /\ ret = 0
    /\ exc = "none"
    /\ heap = <<>>
    /\ log = <<>>
    /\ session_state \in SessionStates
    /\ script = "250228ai_care_plan"

\* the caller takes the result of the call
Return ==
    /\ op # "none"
    /\ op' = "none"
    /\ ret' = 0
    /\ exc' = "none"
    /\ UNCHANGED <<adl_data, heap, log, session_state, script>>

\* the caller builds another assessment for its next call
NewAssessment ==
    /\ op = "none"
    /\ \E a \in CallAssessments : a # adl_data /\ adl_data' = a
    /\ UNCHANGED <<op, ret, exc, heap, log, session_state, script>>

NextCalls ==
    \/ /\ Len(log) < MaxCalls
       /\ \/ CalculateStages
          \/ CalculateMotivation
          \/ DefineRulesAndGoals
          \/ \E stages \in CallStages, motivation \in CallMotivations :
                GenerateGoals(stages, motivation)
    \/ Return
    \/ NewAssessment

SpecCalls == InitCalls /\ [][NextCalls]_vars

(***************************************************************************)
(* The calls of get_response_with_retry and generate_care_plan.             *)
(***************************************************************************)
InitPlan ==
    /\ adl_data = [item \in {} |-> "FullAssistance"]
    /\ op = "none"
    /\ ret = 0
    /\ exc = "none"
    /\ heap = <<>>
    /\ log = <<>>
    /\ session_state = FreshSession
    /\ script = "250228ai_care_plan"

GetResponseWithRetry(api) ==
    /\ op = "none"
    /\ op' = "get_response_with_retry"
    /\ ret' = get_response_with_retry(api).ret
    /\ exc' = "none"
    /\ log' = Append(log, [op |-> "get_response_with_retry", input |-> api,
                           output |-> get_response_with_retry(api)])
    /\ UNCHANGED <<adl_data, heap, session_state, script>>

GenerateCarePlan(in) ==
    /\ op = "none"
    /\ op' = "generate_care_plan"
    /\ ret' = generate_care_plan(in).ret
    /\ exc' = "none"
    /\ log' = Append(log, [op |-> "generate_care_plan", input |-> in,
                           output |-> generate_care_plan(in)])
    /\ UNCHANGED <<adl_data, heap, session_state, script>>

NextPlan ==
    \/ \E api \in ApiBehaviours : GetResponseWithRetry(api)
    \/ \E in \in PlanInputs : GenerateCarePlan(in)

SpecPlan == InitPlan /\ [][NextPlan]_vars

(***************************************************************************)
(* The pages of main().  One action is one run of the script, started by   *)
(* an interaction of the user; st.rerun() starts the script again at once, *)
(* and that run belongs to the same action.  ret is what the run showed:   *)
(*   buttons       the buttons of the generation page that are displayed   *)
(*   warning       a warning was shown                                     *)
(*   called        the care-plan generator was called                      *)
(*   client_needs  the content of the text area                            *)
(*   care_plan     what the generator returned (None when not called)      *)
(* The timestamp of a history entry is left out.                           *)
(***************************************************************************)
\* length of care_plan_history up to which a generation is started
MaxHistory == 2

\* the contents of the form of the basic-information page
BasicInfoForms ==
    [name : {"", "Sato", "Abe"}, care_manager : {"", "Kato"},
     care_office : {"Office"}, age : {0, 80}, gender : {"female"},
     care_level : {"care level 2"}]

\* the condition under which the form is saved
basic_info_valid(s, form) ==
    IF s = "250228ai_care_plan"
    THEN form.name # "" /\ form.care_manager # "" /\ form.care_office # ""
    ELSE form.name # "" /\ form.age > 0 /\ form.gender # "Select"
             /\ form.care_level # "Select"

\* the dict saved as user_info
user_info_of(s, form) ==
    IF s = "250228ai_care_plan"
    THEN [name |-> form.name, care_manager |-> form.care_manager,
          care_office |-> form.care_office, care_level |-> form.care_level]
    ELSE [name |-> form.name, age |-> form.age, gender |-> form.gender,
          care_level |-> form.care_level]

\* the contents of the form of the ADL page: every item of the catalogue
AdlForms ==
    {[item \in adl_categories |-> "FullAssistance"],
     [item \in adl_categories |-> "Independent"]}

\* the contents of the text area of the generation page
ClientNeeds == {"", "stay at home", "attend the wedding"}

\* what the API does during one generation
SessionPlanInputs ==
    {in \in PlanInputs :
        /\ in.loaded
        /\ in.questions \in {<<>>, <<"care_goals">>}
        /\ in.sections["certification_opinion"] = "text"
        /\ in.sections["support_policy"] = "text"
        /\ \A q \in OptionalQuestions : in.prompts[q] /\ in.responses[q] = "text"}

\* the generator of script s: the three-section generator, the mock, or a
\* single request
care_plan_generator(s, user_info, in) ==
    IF s = "250228ai_care_plan" THEN generate_care_plan(in).ret
    ELSE IF s = "app" THEN [text |-> "sample plan", name |-> user_info.name]
    ELSE completion(in.sections[mandatory_sections[1]])

\* 'user_info' not in st.session_state or 'adl_data' not in st.session_state
inputs_missing(state) ==
    "user_info" \notin DOMAIN state \/ "adl_data" \notin DOMAIN state

\* variant: an empty text is accepted
needs_missing_never(client_needs) == FALSE

\* if not client_needs
needs_missing(client_needs) == client_needs = ""

\* the initialisation of current_care_plan and current_client_needs
init_current(state) ==
    IF "current_care_plan" \notin DOMAIN state
    THEN dict_set(dict_set(state, "current_care_plan", NoneValue),
                  "current_client_needs", NoneValue)
    ELSE state

\* variant: the entry is appended without looking at the history
save_history_always(state) ==
    dict_set(state, "care_plan_history",
        Append(state.care_plan_history,
               [user_info |-> state.user_info, adl_data |-> state.adl_data,
                client_needs |-> state.current_client_needs,
                care_plan |-> state.current_care_plan]))

\* the current plan is appended to the history unless an entry has it
save_history(state) ==
    LET history == state.care_plan_history
    IN  IF \E n \in DOMAIN history : history[n].care_plan = state.current_care_plan
        THEN state
        ELSE dict_set(state, "care_plan_history",
                Append(history,
                       [user_info |-> state.user_info, adl_data |-> state.adl_data,
                        client_needs |-> state.current_client_needs,
                        care_plan |-> state.current_care_plan]))

shown(state, buttons, warning) ==
    [state |-> state, buttons |-> buttons, warning |-> warning,
     called |-> FALSE, care_plan |-> NoneValue]

\* a run of the generation page in which no button is pressed
render_generation_page(s, state) ==
    IF inputs_missing(state) THEN shown(state, {}, TRUE)
    ELSE IF s = "250228ai_care_plan"
    THEN LET current == init_current(state)
         IN  IF falsy(current.current_care_plan)
             THEN shown(current, {"generate"}, FALSE)
             ELSE shown(save_history(current), {"new_care_plan"}, FALSE)
    ELSE shown(state, {"generate"}, FALSE)

\* the assignments made for a generated plan
stored_care_plan(s, state, client_needs, care_plan) ==
    IF s = "250228ai_care_plan"
    THEN dict_set(dict_set(state, "current_care_plan", care_plan),
                  "current_client_needs", [text |-> client_needs])
    ELSE IF s = "care_plan2"
    THEN dict_set(dict_set(state, "generated_care_plan", care_plan),
                  "care_plan_history",
                  Append(state.care_plan_history,
                         [user_info |-> state.user_info, adl_data |-> state.adl_data,
                          client_needs |-> [text |-> client_needs],
                          care_plan |-> care_plan]))
    ELSE dict_set(state, "generated_care_plan", care_plan)

\* variant: the result of the generator is stored without being tested
store_care_plan_unchecked(s, state, client_needs, care_plan) ==
    [state |-> stored_care_plan(s, state, client_needs, care_plan), stored |-> TRUE]

\* if care_plan: ...
store_care_plan(s, state, client_needs, care_plan) ==
    IF falsy(care_plan)
    THEN [state |-> state, stored |-> FALSE]
    ELSE [state |-> stored_care_plan(s, state, client_needs, care_plan), stored |-> TRUE]

\* a run of the generation page in which the generate button is pressed
press_generate(s, state, client_needs, in) ==
    IF inputs_missing(state) THEN shown(state, {}, TRUE)
    ELSE LET current == IF s = "250228ai_care_plan" THEN init_current(state) ELSE state
             care_plan == care_plan_generator(s, state.user_info, in)
             result == store_care_plan(s, current, client_needs, care_plan)
         IN  IF s = "250228ai_care_plan" /\ ~ falsy(current.current_care_plan)
             THEN render_generation_page(s, state)
             ELSE IF needs_missing(client_needs)
             THEN shown(current, {"generate"}, TRUE)
             ELSE IF s = "250228ai_care_plan" /\ result.stored
             THEN [render_generation_page(s, result.state)
                      EXCEPT !.called = TRUE, !.care_plan = care_plan]
             ELSE [shown(result.state, {"generate"}, FALSE)
                      EXCEPT !.called = TRUE, !.care_plan = care_plan]

\* variant: only current_care_plan is reset
reset_current_plan_only(state) ==
    dict_set(state, "current_care_plan", NoneValue)

\* the assignments of the 'new care plan' button
reset_current(state) ==
    dict_set(dict_set(state, "current_care_plan", NoneValue),
             "current_client_needs", NoneValue)

\* a run of the generation page of 250228ai_care_plan.py in which the
\* 'new care plan' button is pressed
press_new_care_plan(s, state) ==
    IF inputs_missing(state) THEN shown(state, {}, TRUE)
    ELSE IF falsy(init_current(state).current_care_plan)
    THEN render_generation_page(s, state)
    ELSE render_generation_page(s, reset_current(init_current(state)))

\* what a run that is not a generation shows
page_shown(buttons, warning, client_needs) ==
    [buttons |-> buttons, warning |-> warning, called |-> FALSE,
     client_needs |-> client_needs, care_plan |-> NoneValue]

InitSession ==
    /\ script \in Scripts
    /\ session_state = initial_session(script)
    /\ adl_data = [item \in {} |-> "FullAssistance"]
    /\ op = "none"
    /\ ret = page_shown({}, FALSE, "")
    /\ exc = "none"
    /\ heap = <<>>
    /\ log = <<>>

SaveBasicInfo(form) ==
    /\ op' = "save_basic_info"
    /\ session_state' = IF basic_info_valid(script, form)
                        THEN dict_set(session_state, "user_info", user_info_of(script, form))
                        ELSE session_state
    /\ ret' = page_shown({}, ~ basic_info_valid(script, form), "")
    /\ UNCHANGED <<adl_data, exc, heap, log, script>>

SaveAdlData(all_adl_data) ==
    /\ op' = "save_adl_data"
    /\ session_state' = dict_set(session_state, "adl_data", all_adl_data)
    /\ ret' = page_shown({}, FALSE, "")
    /\ UNCHANGED <<adl_data, exc, heap, log, script>>

RenderGenerationPage(client_needs) ==
    LET page == render_generation_page(script, session_state)
    IN  /\ op' = "generation_page"
        /\ session_state' = page.state
        /\ ret' = page_shown(page.buttons, page.warning, client_needs)
        /\ UNCHANGED <<adl_data, exc, heap, log, script>>

PressGenerate(client_needs, in) ==
    LET page == press_generate(script, session_state, client_needs, in)
    IN  /\ "generate" \in ret.buttons
        /\ "care_plan_history" \in DOMAIN session_state =>
               Len(session_state.care_plan_history) < MaxHistory
        /\ op' = "generate"
        /\ session_state' = page.state
        /\ ret' = [buttons |-> page.buttons, warning |-> page.warning,
                   called |-> page.called, client_needs |-> client_needs,
                   care_plan |-> page.care_plan]
        /\ UNCHANGED <<adl_data, exc, heap, log, script>>

PressNewCarePlan ==
    LET page == press_new_care_plan(script, session_state)
    IN  /\ script = "250228ai_care_plan"
        /\ "new_care_plan" \in ret.buttons
        /\ op' = "new_care_plan"
        /\ session_state' = page.state
        /\ ret' = page_shown(page.buttons, page.warning, "")
        /\ UNCHANGED <<adl_data, exc, heap, log, script>>

\* the history page only reads care_plan_history
RenderHistoryPage ==
    /\ script \in HistoryScripts
    /\ op' = "history_page"
    /\ ret' = page_shown({}, FALSE, "")
    /\ UNCHANGED <<adl_data, exc, heap, log, session_state, script>>

NextSession ==
    \/ \E form \in BasicInfoForms : SaveBasicInfo(form)
    \/ \E all_adl_data \in AdlForms : SaveAdlData(all_adl_data)
    \/ \E client_needs \in ClientNeeds : RenderGenerationPage(client_needs)
    \/ \E client_needs \in ClientNeeds, in \in SessionPlanInputs :
          PressGenerate(client_needs, in)
    \/ PressNewCarePlan
    \/ RenderHistoryPage

SpecSession == InitSession /\ [][NextSession]_vars

(***************************************************************************)
(* Vocabulary of the properties.                                           *)
(***************************************************************************)
\* a non-empty assessment over the catalogue, every item with one of the
\* four statuses
ValidAssessment(adl) ==
    /\ DOMAIN adl # {}
    /\ DOMAIN adl \subseteq adl_categories
    /\ \A item \in DOMAIN adl : adl[item] \in Statuses

\* every present item has the given status
AllRated(adl, status) == \A item \in DOMAIN adl : adl[item] = status

StageCalled == op = "calculate_stages"
MotivationCalled == op = "calculate_motivation"

\* ItemWeight of the data model, in tenths
ItemWeight(item) ==
    CASE item = "Mobility"  -> 15
      [] item = "Toileting" -> 13
      [] item = "Meals"     -> 12
      [] item = "Bathing"   -> 11
      [] OTHER              -> 10

\* rating weight of the data model
RatingWeight(status) == IF status \in Statuses THEN StatusRank(status) ELSE 1

\* clamp(floor(5 * sum(ratingWeight_i * w_i) / (4 * sum(w_i))), 1, 5) over
\* the present items
PresentItemsStage(adl) ==
    LET num == SumOver(DOMAIN adl,
                  [i \in DOMAIN adl |-> RatingWeight(adl[i]) * ItemWeight(i)])
        den == SumOver(DOMAIN adl, [i \in DOMAIN adl |-> ItemWeight(i)])
    IN  Max2(1, Min2(5, (5 * num) \div (4 * den)))

\* MotivationWeight of the data model, in tenths
MotivationWeight(item) ==
    CASE item = "Communication" -> 15
      [] item = "Cognition"     -> 13
      [] item = "Sleep"         -> 12

\* motivation score of the data model, in halves
MotivationScore(status) ==
    CASE status = "FullAssistance"    -> 0
      [] status = "PartialAssistance" -> 2
      [] status = "Supervision"       -> 3
      [] status = "Independent"       -> 4

\* the motivation items of the assessment
MotivationItems(adl) == {"Communication", "Cognition", "Sleep"} \cap DOMAIN adl

\* every motivation item present has one of the four statuses
MotivationRated(adl) == \A item \in MotivationItems(adl) : adl[item] \in Statuses

\* sum over the present motivation items of score * weight, divided by the
\* fixed 4.0: a value in units of 1/80
FixedDenominatorValue(adl) ==
    SumOver(MotivationItems(adl),
            [i \in MotivationItems(adl) |-> MotivationScore(adl[i]) * MotivationWeight(i)])

\* the same sum divided by the weights of the present items only, in units
\* of 1/80 (truncated)
PresentDenominatorValue(adl) ==
    LET w == SumOver(MotivationItems(adl),
                     [i \in MotivationItems(adl) |-> MotivationWeight(i)])
    IN  (40 * FixedDenominatorValue(adl)) \div w

\* v is a one-decimal value nearest to x (both in units of 1/80)
NearestTenth(v, x) == v % 8 = 0 /\ v - x <= 4 /\ x - v <= 4

(***************************************************************************)
(* Properties.                                                             *)
(***************************************************************************)

\* C1: for every assessment with at least one item (a non-empty subset of
\* the 12 catalogue items, each with one of the four statuses)
\* calculate_stages returns an integer s with 1 <= s <= 5.
C1_StageInRange ==
    (StageCalled /\ ValidAssessment(adl_data)) =>
        (exc = "none" /\ ret \in 1..5)

\* C1 witness: a call on a valid assessment whose unclamped stage is 0 and
\* whose result is 1.
C1_Witness ==
    /\ StageCalled
    /\ ValidAssessment(adl_data)
    /\ final_stage(adl_data) = 0
    /\ ret = 1

\* C2 (as stated): for every non-empty assessment in which every present
\* item is Independent, calculate_stages returns 5.
C2_AllIndependentIsFive ==
    (StageCalled /\ ValidAssessment(adl_data) /\ AllRated(adl_data, "Independent")) =>
        (exc = "none" /\ ret = 5)

\* C3 (as stated): the stage is clamp(floor(5 * sum(ratingWeight * w) /
\* (4 * sum(w))), 1, 5) with both sums over the present items only.
C3_PresentItemsDenominator ==
    (StageCalled /\ ValidAssessment(adl_data)) =>
        (exc = "none" /\ ret = PresentItemsStage(adl_data))

\* C4 (as stated): calculate_stages on the empty assessment ends in the
\* error EmptyAssessment.
C4_EmptyStageRaises ==
    (StageCalled /\ DOMAIN adl_data = {}) => exc = "EmptyAssessment"

\* C5 (as stated): calculate_motivation on an assessment without any of
\* Communication, Cognition, Sleep ends in the error EmptyAssessment.
C5_EmptyMotivationRaises ==
    (MotivationCalled /\ MotivationItems(adl_data) = {}) => exc = "EmptyAssessment"

\* C6: calculate_stages is monotonic non-decreasing in each item's status:
\* replacing the status of one present item by a higher one, every other
\* item unchanged, gives a stage >= the stage of the assessment.
C6_StageMonotonic ==
    (StageCalled /\ ValidAssessment(adl_data)) =>
        \A item \in DOMAIN adl_data :
            \A s \in Statuses :
                StatusRank(s) > StatusRank(adl_data[item]) =>
                    LET up == calculate_stages([adl_data EXCEPT ![item] = s])
                    IN  up.exc = "none" /\ exc = "none" /\ up.ret >= ret

\* C6 witness: a call on an assessment in which upgrading one item raises
\* the stage strictly.
C6_Witness ==
    /\ StageCalled
    /\ ValidAssessment(adl_data)
    /\ \E item \in DOMAIN adl_data :
          /\ adl_data[item] = "Supervision"
          /\ calculate_stages([adl_data EXCEPT ![item] = "Independent"]).ret > ret

\* C7: for every non-empty assessment in which every present item is
\* FullAssistance, calculate_stages returns 1.
C7_AllFullAssistanceIsOne ==
    (StageCalled /\ ValidAssessment(adl_data) /\ AllRated(adl_data, "FullAssistance")) =>
        (exc = "none" /\ ret = 1)

\* C7 witness: the call on the whole catalogue at FullAssistance, whose
\* unclamped stage is already 1.
C7_Witness ==
    /\ StageCalled
    /\ DOMAIN adl_data = adl_categories
    /\ AllRated(adl_data, "FullAssistance")
    /\ final_stage(adl_data) = 1
    /\ ret = 1

\* C8: calculate_motivation divides by the fixed 4.0 whichever motivation
\* items are present: its result is the one-decimal value nearest to
\* sum(score * weight) / 4.0 over the present motivation items, and for
\* Communication and Cognition Independent without Sleep it is 1.4.
C8_FixedDenominator ==
    (MotivationCalled /\ MotivationRated(adl_data)) =>
        /\ exc = "none"
        /\ NearestTenth(ret, FixedDenominatorValue(adl_data))
        /\ (/\ MotivationItems(adl_data) = {"Communication", "Cognition"}
            /\ adl_data["Communication"] = "Independent"
            /\ adl_data["Cognition"] = "Independent") => ret = 112

\* C8 witness: the call with Communication and Cognition Independent and
\* Sleep absent; the quotient over the present weights would be 2.0.
C8_Witness ==
    /\ MotivationCalled
    /\ MotivationItems(adl_data) = {"Communication", "Cognition"}
    /\ adl_data["Communication"] = "Independent"
    /\ adl_data["Cognition"] = "Independent"
    /\ PresentDenominatorValue(adl_data) = 160
    /\ ret = 112

\* C9: calculate_motivation returns exactly 2.0 when Communication,
\* Cognition and Sleep are all Independent, and a single motivation item
\* contributes score * weight / 4.0 with the scores 0, 1, 1.5, 2 and the
\* weights 1.5, 1.3, 1.2.
C9_MotivationScale ==
    MotivationCalled =>
        /\ (/\ MotivationItems(adl_data) = {"Communication", "Cognition", "Sleep"}
            /\ \A i \in MotivationItems(adl_data) : adl_data[i] = "Independent")
               => (exc = "none" /\ ret = 2 * MotivationUnit)
        /\ \A i \in {"Communication", "Cognition", "Sleep"} :
              (MotivationItems(adl_data) = {i} /\ adl_data[i] \in Statuses) =>
                 LET x == MotivationScore(adl_data[i]) * MotivationWeight(i)
                 IN  exc = "none" /\ ret - x <= 4 /\ x - ret <= 4

\* C9 witness: the call with the three motivation items Independent.
C9_Witness ==
    /\ MotivationCalled
    /\ MotivationItems(adl_data) = {"Communication", "Cognition", "Sleep"}
    /\ \A i \in MotivationItems(adl_data) : adl_data[i] = "Independent"
    /\ ret = 160

\* C10: every value m returned by calculate_motivation satisfies
\* 0 <= m <= 2 and is a multiple of 0.1.
C10_MotivationRange ==
    (MotivationCalled /\ exc = "none") =>
        (ret >= 0 /\ ret <= 2 * MotivationUnit /\ ret % (MotivationUnit \div 10) = 0)

\* C10 witness: a call whose unrounded quotient is not a multiple of 0.1.
C10_Witness ==
    /\ MotivationCalled
    /\ exc = "none"
    /\ motivation_weighted_sum(adl_data) % 8 # 0
    /\ ret % 8 = 0
    /\ ret > 0

(***************************************************************************)
(* Properties of the second group.                                         *)
(***************************************************************************)
GoalsCalled == op = "generate_goals"
PipelineCalled == op = "define_rules_and_goals"

\* the arguments of the call that has just been made
LastInput == log[Len(log)].input

\* the assessment with one item removed
Without(adl, item) == [i \in DOMAIN adl \ {item} |-> adl[i]]

\* the assessment with one item set to a status or removed
WithItem(adl, item, v) == Override(adl, [i \in {item} |-> v])

\* C11: items outside Communication, Cognition, Sleep do not contribute to
\* motivation: adding, removing or re-rating any other item leaves the
\* result of calculate_motivation unchanged.
C11_OtherItemsIgnored ==
    MotivationCalled =>
        \A item \in ItemNames \ {"Communication", "Cognition", "Sleep"} :
            \A v \in StatusValues \cup {Absent} :
                calculate_motivation(WithItem(adl_data, item, v))
                    = [exc |-> exc, ret |-> ret]

\* C11 witness: a call returning a positive motivation on an assessment
\* that has a priority item rated Independent.
C11_Witness ==
    /\ MotivationCalled
    /\ ret > 0
    /\ \E item \in DOMAIN adl_data \cap priority_keys : adl_data[item] = "Independent"

\* C12: for every assessment with at least two motivation items, removing
\* one of them makes calculate_motivation return a value <= the previous
\* one and raises no error.
C12_MissingItemLowers ==
    (MotivationCalled /\ Cardinality(MotivationItems(adl_data)) >= 2) =>
        /\ exc = "none"
        /\ \A item \in MotivationItems(adl_data) :
              LET out == calculate_motivation(Without(adl_data, item))
              IN  out.exc = "none" /\ out.ret <= ret

\* C12 witness: a call on an assessment with the three motivation items
\* where removing Sleep lowers the result strictly.
C12_Witness ==
    /\ MotivationCalled
    /\ MotivationItems(adl_data) = {"Communication", "Cognition", "Sleep"}
    /\ calculate_motivation(Without(adl_data, "Sleep")).ret < ret

\* C13: for every stage in 1..5 and motivation in [0,2] generate_goals
\* returns exactly two short-term and two long-term goals, the stage goal
\* first and the motivation goal of index k second, k the motivation
\* truncated (not rounded) and clamped to 0..2; stage 3 with motivation 1.5
\* or 1.9 gives index 1.
C13_GoalsByTruncation ==
    (GoalsCalled /\ LastInput[1] \in 1..5
                 /\ LastInput[2] >= 0 /\ LastInput[2] <= 2 * MotivationUnit) =>
        LET stage == LastInput[1]
            k == IF LastInput[2] < MotivationUnit THEN 0
                 ELSE IF LastInput[2] < 2 * MotivationUnit THEN 1 ELSE 2
        IN  /\ exc = "none"
            /\ ret.short_term = <<stage_goals[stage].short, motivation_goals[k].short>>
            /\ ret.long_term = <<stage_goals[stage].long, motivation_goals[k].long>>
            /\ (stage = 3 /\ LastInput[2] \in {120, 152}) =>
                  /\ ret.short_term = <<"identify the situations needing supervision",
                                        "improve everyday communication">>
                  /\ ret.long_term = <<"achieve partial independence",
                                       "active participation in activities">>

\* C13 witness: the call generate_goals(3, 1.9).
C13_Witness ==
    /\ GoalsCalled
    /\ LastInput = <<3, 152>>
    /\ ret.short_term = <<"identify the situations needing supervision",
                          "improve everyday communication">>

\* C14 (as stated): generate_goals called with a stage outside 1..5 ends in
\* an error and returns no goals.
C14_OutOfRangeRaises ==
    (GoalsCalled /\ LastInput[1] \notin 1..5) => exc # "none"

\* C14 (amended): generate_goals called with a stage outside 1..5 raises no
\* error; it returns the goals of stage 1 for a stage below 1 and of stage 5
\* for a stage above 5.
C14_OutOfRangeClamped ==
    (GoalsCalled /\ LastInput[1] \notin 1..5) =>
        LET nearest == IF LastInput[1] < 1 THEN 1 ELSE 5
        IN  /\ exc = "none"
            /\ ret.short_term[1] = stage_goals[nearest].short
            /\ ret.long_term[1] = stage_goals[nearest].long

\* C14 witness: the call with stage 7, answered with the goals of stage 5.
C14_Witness ==
    /\ GoalsCalled
    /\ LastInput[1] = 7
    /\ exc = "none"
    /\ ret.short_term[1] = "maintain current function"

\* C15: in define_rules_and_goals the table lookups never miss: the stage
\* key is in 1..5 and the motivation key in 0..2 for every assessment, and
\* the goals are those of exactly these keys.
C15_LookupsNeverMiss ==
    PipelineCalled =>
        /\ exc = "none"
        /\ ret.stages \in 1..5
        /\ ret.motivation >= 0
        /\ ret.motivation \div MotivationUnit \in 0..2
        /\ ret.goals.short_term =
              <<stage_goals[ret.stages].short,
                motivation_goals[ret.motivation \div MotivationUnit].short>>
        /\ ret.goals.long_term =
              <<stage_goals[ret.stages].long,
                motivation_goals[ret.motivation \div MotivationUnit].long>>

\* C15 witness: a call of the pipeline in which the stage before clamping
\* is 0 and the lookup is made with key 1.
C15_Witness ==
    /\ PipelineCalled
    /\ exc = "none"
    /\ final_stage(adl_data) = 0
    /\ ret.stages = 1
    /\ ret.goals.short_term[1] = "stabilise basic ADL"

\* C16: calculate_stages converts the weighted average to a stage by
\* truncation, never by rounding to nearest: the stage s, when no clamping
\* applies, satisfies s <= average * 5 / 4 < s + 1, and the 12 catalogue
\* items at Supervision give 3, not 4.
C16_StageTruncates ==
    (StageCalled /\ ValidAssessment(adl_data)) =>
        LET num == 5 * weighted_sum(adl_data)
            den == 4 * total_weight(adl_data)
        IN  /\ (num >= den /\ num < 6 * den) =>
                  (ret * den <= num /\ num < (ret + 1) * den)
            /\ (DOMAIN adl_data = adl_categories /\ AllRated(adl_data, "Supervision"))
                  => ret = 3

\* C16 witness: the call on the 12 catalogue items at Supervision.
C16_Witness ==
    /\ StageCalled
    /\ DOMAIN adl_data = adl_categories
    /\ AllRated(adl_data, "Supervision")
    /\ ret = 3

\* C17: in calculate_stages an unrecognised status is scored like
\* FullAssistance: replacing every unrecognised status by FullAssistance
\* gives the same stage, and no error is raised.
C17_UnknownStatusIsFullAssistance ==
    StageCalled =>
        /\ exc = "none"
        /\ calculate_stages([item \in DOMAIN adl_data |->
                                IF adl_data[item] \in Statuses THEN adl_data[item]
                                ELSE "FullAssistance"])
              = [exc |-> "none", ret |-> ret]

\* C17 witness: a call on an assessment with an unrecognised status whose
\* stage would be higher had the item been Independent.
C17_Witness ==
    /\ StageCalled
    /\ \E item \in DOMAIN adl_data :
          /\ adl_data[item] = UnknownStatus
          /\ calculate_stages([adl_data EXCEPT ![item] = "Independent"]).ret > ret

\* C18: calculate_stages accepts an item name outside the catalogue and
\* scores it with weight 1.0: with the unknown name replaced by a
\* non-priority catalogue item of the same status the stage is the same.
C18_UnknownItemWeighsOne ==
    (StageCalled /\ UnknownItem \in DOMAIN adl_data) =>
        /\ exc = "none"
        /\ \A c \in (adl_categories \ {"Mobility", "Toileting", "Meals", "Bathing"})
                        \ DOMAIN adl_data :
              calculate_stages(
                  [i \in (DOMAIN adl_data \ {UnknownItem}) \cup {c} |->
                      IF i = c THEN adl_data[UnknownItem] ELSE adl_data[i]])
                = [exc |-> "none", ret |-> ret]

\* C18 witness: a call on an assessment that has the unknown item and not
\* Cognition, and whose stage depends on the unknown item.
C18_Witness ==
    /\ StageCalled
    /\ UnknownItem \in DOMAIN adl_data
    /\ "Cognition" \notin DOMAIN adl_data
    /\ calculate_stages(Without(adl_data, UnknownItem)).ret # ret

\* C19: in any sequence of calls, two calls of the same operation with
\* equal inputs return equal outputs, whatever calls were made in between.
C19_Deterministic ==
    \A i \in DOMAIN log : \A j \in DOMAIN log :
        (log[i].op = log[j].op /\ log[i].input = log[j].input) =>
            log[i].output = log[j].output

\* C19 witness: two calls of generate_goals with equal arguments, a call of
\* another operation in between.
C19_Witness ==
    /\ Len(log) = 3
    /\ log[1].op = "generate_goals"
    /\ log[2].op = "calculate_motivation"
    /\ log[3].op = "generate_goals"
    /\ log[1].input = log[3].input
    /\ log[1].output.exc = "none"

\* C20: a call of one of the operations leaves the assessment passed in and
\* the session state unchanged, and the goals it returns are a fresh value:
\* the goals returned by earlier calls are not altered.
C20_NoSideEffects ==
    [][(op = "none" /\ op' # "none") =>
          /\ adl_data' = adl_data
          /\ session_state' = session_state
          /\ \A id \in DOMAIN heap : heap'[id] = heap[id]
          /\ Len(heap') >= Len(heap)]_vars

\* C20 witness: a second call of generate_goals has returned, in a session
\* that holds a plan, and the goals of the first call are still two and two.
C20_Witness ==
    /\ GoalsCalled
    /\ Len(heap) = 2
    /\ session_state = UsedSession
    /\ DOMAIN adl_data # {}
    /\ Len(heap[1].short_term) = 2
    /\ Len(heap[1].long_term) = 2

(***************************************************************************)
(* Properties of the third group: the scoring functions.                   *)
(***************************************************************************)

C23_StageTotal ==
    StageCalled =>
        /\ 51 + 10 * (Cardinality(DOMAIN adl_data) - 4) >= 11
        /\ total_weight(adl_data) >= 11
        /\ exc = "none"
        /\ ret \in 1..5
        /\ (DOMAIN adl_data = {}) => ret = 1

\* C23 witness: the call on the empty assessment, returning 1.
C23_Witness ==
    /\ StageCalled
    /\ DOMAIN adl_data = {}
    /\ exc = "none"
    /\ ret = 1

\* C24: in define_rules_and_goals the motivation goals are those of index
\* 2 if and only if Communication, Cognition and Sleep are all present and
\* all Independent; for every other assessment the index is 0 or 1.
C24_TopMotivationGoals ==
    PipelineCalled =>
        LET top == /\ {"Communication", "Cognition", "Sleep"} \subseteq DOMAIN adl_data
                   /\ \A i \in {"Communication", "Cognition", "Sleep"} :
                          adl_data[i] = "Independent"
            second == <<ret.goals.short_term[2], ret.goals.long_term[2]>>
        IN  /\ exc = "none"
            /\ top <=> (second = <<motivation_goals[2].short, motivation_goals[2].long>>)
            /\ ~top => \E k \in {0, 1} :
                          second = <<motivation_goals[k].short, motivation_goals[k].long>>

\* C24 witness: a call of the pipeline returning motivation 1.8, the
\* largest value below 2.0, with the goals of index 1.
C24_Witness ==
    /\ PipelineCalled
    /\ ret.motivation = 144
    /\ ret.goals.short_term[2] = "improve everyday communication"

(***************************************************************************)
(* Properties of the third group: the language-model calls.                *)
(***************************************************************************)
RetryCalled == op = "get_response_with_retry"
PlanCalled == op = "generate_care_plan"

\* the output recorded for the call that has just been made
LastOutput == log[Len(log)].output

\* the outcome of a request is a failure: an exception or an empty content
Failed(outcome) == outcome \in {"error", ""}

\* C21 (as stated): get_response_with_retry requests the API again after a
\* failed attempt: when only the first attempt fails it does not return
\* None.
C21_RetriesAfterFailure ==
    (RetryCalled /\ LastInput[1] = "error" /\ LastInput[2] = "text") =>
        (ret # NoneValue /\ LastOutput.attempts >= 2)

\* C27: generate_care_plan returns None as soon as one of the three
\* mandatory sections fails, and the later sections are not requested; a
\* failed prompt or response of an optional question only omits the key of
\* that question; every result other than None has the keys intentions,
\* certification_opinion and support_policy.
C27_MandatorySectionsOrNone ==
    (PlanCalled /\ LastInput.loaded) =>
        LET in == LastInput
            failing == {n \in 1..3 : Failed(in.sections[mandatory_sections[n]])}
            first == CHOOSE n \in failing : \A m \in failing : n <= m
            optional == {in.questions[n] : n \in DOMAIN in.questions}
                            \ {"intentions", "certification_opinion", "support_policy"}
        IN  /\ failing # {} =>
                  /\ ret = NoneValue
                  /\ LastOutput.requests = SubSeq(mandatory_sections, 1, first)
            /\ failing = {} =>
                  /\ ret # NoneValue
                  /\ \A q \in optional :
                        IF in.prompts[q] /\ ~ Failed(in.responses[q])
                        THEN q \in DOMAIN ret /\ ret[q] = [text |-> in.responses[q]]
                        ELSE q \notin DOMAIN ret
            /\ ret # NoneValue =>
                  /\ {"intentions", "certification_opinion", "support_policy"}
                        \subseteq DOMAIN ret
                  /\ \A k \in {"intentions", "certification_opinion", "support_policy"} :
                        ret[k] = [text |-> in.sections[k]]

\* C27 witness: a call in which the first optional question fails and the
\* second one is answered; the plan has the three sections and the second
\* question only.
C27_Witness ==
    /\ PlanCalled
    /\ LastInput.questions = <<"care_goals", "service_plan">>
    /\ ret # NoneValue
    /\ DOMAIN ret = {"intentions", "certification_opinion", "support_policy",
                     "service_plan"}

(***************************************************************************)
(* Properties of the third group: the pages and the session state.         *)
(***************************************************************************)
\* both user_info and adl_data have been saved in the session
SavedInputs(state) == {"user_info", "adl_data"} \subseteq DOMAIN state

\* care_plan_history, empty for a script that keeps none
History(state) ==
    IF "care_plan_history" \in DOMAIN state THEN state.care_plan_history ELSE <<>>

GenerationRun == op' \in {"generation_page", "generate"}

\* C25: in every script the generator is only called in a session in which
\* basic information and ADL data have been saved, and with a client-needs
\* text that is not empty; a run of the generation page without user_info
\* or adl_data, and a press of generate with an empty text, show a warning,
\* do not call the generator and leave the session state as it was.
C25_GeneratorOnlyAfterInputs ==
    [][GenerationRun =>
          /\ ret'.called =>
                /\ SavedInputs(session_state)
                /\ session_state.user_info.name # ""
                /\ ret'.client_needs # ""
          /\ (~ SavedInputs(session_state)
                 \/ (op' = "generate" /\ ret'.client_needs = "")) =>
                /\ ret'.warning
                /\ ~ ret'.called
                /\ session_state' = session_state]_vars

\* C25 witness: in app.py generate was pressed with an empty text after
\* both saves: a warning, and no call of the generator.
C25_Witness ==
    /\ script = "app"
    /\ op = "generate"
    /\ SavedInputs(session_state)
    /\ ret.client_needs = ""
    /\ ret.warning
    /\ ~ ret.called

\* C26: in 250228ai_care_plan.py every step leaves the entries of
\* care_plan_history in place and appends at most one, and no two entries
\* of the history have equal care_plan.
C26_HistoryAppendOnly ==
    [][script = "250228ai_care_plan" =>
          LET before == History(session_state)
              after == History(session_state')
          IN  /\ Len(after) \in {Len(before), Len(before) + 1}
              /\ SubSeq(after, 1, Len(before)) = before
              /\ \A i, j \in DOMAIN after :
                    after[i].care_plan = after[j].care_plan => i = j]_vars

\* C26 witness: the generation page is rendered again while the second
\* plan of the session is displayed; the history has its two entries.
C26_Witness ==
    /\ script = "250228ai_care_plan"
    /\ op = "generation_page"
    /\ ret.buttons = {"new_care_plan"}
    /\ Len(History(session_state)) = 2

C29_ResetTogether ==
    [][script = "250228ai_care_plan" =>
          /\ (op' = "new_care_plan" /\ "new_care_plan" \in ret.buttons) =>
                /\ session_state'.current_care_plan = NoneValue
                /\ session_state'.current_client_needs = NoneValue
                /\ session_state'.user_info = session_state.user_info
                /\ session_state'.adl_data = session_state.adl_data
                /\ History(session_state') = History(session_state)
          /\ "current_care_plan" \in DOMAIN session_state'
                <=> "current_client_needs" \in DOMAIN session_state'
          /\ "current_care_plan" \in DOMAIN session_state' =>
                (session_state'.current_care_plan = NoneValue
                    <=> session_state'.current_client_needs = NoneValue)]_vars

\* C29 witness: the 'new care plan' button was pressed on a displayed plan:
\* both keys are None and the history still holds the plan.
C29_Witness ==
    /\ script = "250228ai_care_plan"
    /\ op = "new_care_plan"
    /\ session_state.current_care_plan = NoneValue
    /\ session_state.current_client_needs = NoneValue
    /\ Len(History(session_state)) = 1

====
